---- MODULE Spec2Model ----
(***************************************************************************)
(* A model of the real-time collaboration engine,                          *)
(* backend/concepts/collaboration.py (class CollaborationConcept).         *)
(*                                                                         *)
(* The engine runs on a single asyncio event loop: a coroutine runs        *)
(* without interruption until it awaits something that really suspends.    *)
(* The only such await is websocket.send_text inside _broadcast_event, so  *)
(* every action below is the code between two suspensions: the start of a  *)
(* call up to its first send, and the completion of one send up to the     *)
(* next send or the return of the call.                                    *)
(***************************************************************************)
EXTENDS Integers, Sequences, FiniteSets, TLC

\* ------------------------------------------------------------ bounds
NumTasks == 2      \* calls suspended in a broadcast at the same time
MaxCalls == 4      \* calls started in one behaviour
OTMaxPos == 2      \* positions of the operations given to the transform alone

SessionIds == {1, 2}
Channels == {1, 2}
Tasks == 1..NumTasks
Users == {"alice", "bob"}
Mockups == {"m1"}
EventTypes == {"edit", "operation"}

NoSession == 0
NoUser == "none"

\* ------------------------------------------------------------ state
VARIABLES
    sessions,               \* self.sessions: session id -> CollaborationSession
    events,                 \* self.events: session id -> list of CollaborationEvent
    user_sessions,          \* self.user_sessions: user id -> set of session ids
    websocket_connections,  \* self.websocket_connections: session id -> list of websockets
    tasks,                  \* the calls suspended in a send of _broadcast_event
    inbox,                  \* per websocket, the texts its send_text delivered
    ret,                    \* the call that returned last, with what it returned
    ncalls                  \* calls started so far

vars == <<sessions, events, user_sessions, websocket_connections, tasks, inbox, ret, ncalls>>

\* ------------------------------------------------------------ helpers
\* {}: a dict with no key
EmptyDict == [x \in {} |-> 0]

\* dict[key] = value
Put(f, k, v) == [x \in DOMAIN f \cup {k} |-> IF x = k THEN v ELSE f[x]]

\* list.remove(x): the first occurrence goes; ValueError (passed) when absent
RECURSIVE RemoveFirst(_, _)
RemoveFirst(s, x) ==
    IF s = <<>> THEN <<>>
    ELSE IF Head(s) = x THEN Tail(s)
    ELSE <<Head(s)>> \o RemoveFirst(Tail(s), x)

\* list[-n:]
LastN(s, n) == IF Len(s) <= n THEN s ELSE SubSeq(s, Len(s) - n + 1, Len(s))

\* dataclass CollaborationSession (created_at is a wall-clock datetime, kept
\* as its type only)
CollaborationSession(sid, mockup, creator) ==
    [session_id |-> sid, mockup_id |-> mockup, created_by |-> creator,
     created_at |-> "datetime", participants |-> {creator}, is_active |-> TRUE]

\* dataclass CollaborationEvent (timestamp is a wall-clock datetime, kept as
\* its type only; event_id is a fresh uuid4, modelled by a serial number)
CollaborationEvent(eid, sid, uid, type, data) ==
    [event_id |-> eid, session_id |-> sid, user_id |-> uid,
     event_type |-> type, data |-> data, timestamp |-> "datetime"]

\* the number of events in all logs: the next fresh event id
RECURSIVE SumLen(_, _)
SumLen(f, S) ==
    IF S = {} THEN 0
    ELSE LET s == CHOOSE x \in S : TRUE
         IN Len(f[s]) + SumLen(f, S \ {s})

\* (mutant) the id counts the logs, not their events
EventIdOfLogCount == Cardinality(DOMAIN events)

FreshEventId == SumLen(events, DOMAIN events) + 1

\* a suspended call: what it needs to resume.  connections is the snapshot
\* taken by line 267 and sent the number of its websockets the loop is done with.
Idle ==
    [pc |-> "idle", op |-> "none", session_id |-> NoSession, user_id |-> NoUser,
     connections |-> <<>>, sent |-> 0, message |-> [type |-> "none"]]

NoData == [type |-> "none"]

Returned(op, sid, uid, result, value, data) ==
    [op |-> op, session_id |-> sid, user_id |-> uid, result |-> result,
     value |-> value, data |-> data]

\* json.dumps(event_data): a datetime is not JSON serializable (TypeError).
\* The user_joined / user_left messages hold strings and a list of strings;
\* a collaboration_event message holds asdict(event) with its timestamp.
JsonSerializable(message) ==
    IF message.type = "collaboration_event"
    THEN message.event.timestamp # "datetime"
    ELSE TRUE

Init ==
    /\ sessions = EmptyDict
    /\ events = EmptyDict
    /\ user_sessions = EmptyDict
    /\ websocket_connections = EmptyDict
    /\ tasks = [t \in Tasks |-> Idle]
    /\ inbox = [w \in Channels |-> <<>>]
    /\ ret = Returned("none", NoSession, NoUser, "none", 0, NoData)
    /\ ncalls = 0

\* ------------------------------------------------------------ payloads
\* A text is kept by its length alone: the engine only takes len(text).
Text(n) == [i \in 1..n |-> "x"]

\* The operations and payloads the calls of Spec are given.
Operations ==
    {[type |-> "insert", position |-> 0, text |-> Text(1)],
     [type |-> "insert", position |-> 2, text |-> Text(2)],
     [type |-> "delete", position |-> 1, length |-> 1],
     [type |-> "format"]}
Payloads == {[type |-> "format"]}

\* ------------------------------------------------------------ transform engine
\* self.events[session_id][-10:]
WindowSize == 10

\* (mutant) the user test of the filter left out
RecentOpsAnyUser(log, uid) ==
    SelectSeq(LastN(log, WindowSize), LAMBDA e : e.event_type = "operation")

\* (mutant) the window is picked by event id instead of by place in the log
RecentOpsByEventId(log, uid) ==
    SelectSeq(log, LAMBDA e : /\ e.event_id > Len(log) - WindowSize
                              /\ e.user_id # uid
                              /\ e.event_type = "operation")

\* (mutant) the filter is applied to the whole log and the last ten of what
\* passes are kept
RecentOpsFilterFirst(log, uid) ==
    LastN(SelectSeq(log, LAMBDA e : e.user_id # uid /\ e.event_type = "operation"),
          WindowSize)

\* recent_ops, lines 200-203 and 222-225
RecentOps(log, uid) ==
    SelectSeq(LastN(log, WindowSize),
              LAMBDA e : e.user_id # uid /\ e.event_type = "operation")

\* (mutant) an insert at the submitted position itself does not shift
RECURSIVE AdjustPositionInsertStrict(_, _, _)
AdjustPositionInsertStrict(ops, position, adjusted) ==
    IF ops = <<>> THEN adjusted
    ELSE LET d == Head(ops).data
         IN  AdjustPositionInsertStrict(Tail(ops), position,
                IF d.type = "insert" /\ d.position < position
                THEN adjusted + Len(d.text)
                ELSE IF d.type = "delete" /\ d.position < position
                THEN adjusted - d.length
                ELSE adjusted)

\* (mutant) a delete at the submitted position itself shifts as well
RECURSIVE AdjustPositionDeleteAtOrBefore(_, _, _)
AdjustPositionDeleteAtOrBefore(ops, position, adjusted) ==
    IF ops = <<>> THEN adjusted
    ELSE LET d == Head(ops).data
         IN  AdjustPositionDeleteAtOrBefore(Tail(ops), position,
                IF d.type = "insert" /\ d.position <= position
                THEN adjusted + Len(d.text)
                ELSE IF d.type = "delete" /\ d.position <= position
                THEN adjusted - d.length
                ELSE adjusted)

\* (mutant) the comparisons are against the running adjusted position
RECURSIVE AdjustPositionRunning(_, _, _)
AdjustPositionRunning(ops, position, adjusted) ==
    IF ops = <<>> THEN adjusted
    ELSE LET d == Head(ops).data
         IN  AdjustPositionRunning(Tail(ops), position,
                IF d.type = "insert" /\ d.position <= adjusted
                THEN adjusted + Len(d.text)
                ELSE IF d.type = "delete" /\ d.position < adjusted
                THEN adjusted - d.length
                ELSE adjusted)

\* the for loop of lines 207-212 and 230-235: every comparison is against
\* operation["position"], the position as submitted
RECURSIVE AdjustPosition(_, _, _)
AdjustPosition(ops, position, adjusted) ==
    IF ops = <<>> THEN adjusted
    ELSE LET d == Head(ops).data
         IN  AdjustPosition(Tail(ops), position,
                IF d.type = "insert" /\ d.position <= position
                THEN adjusted + Len(d.text)
                ELSE IF d.type = "delete" /\ d.position < position
                THEN adjusted - d.length
                ELSE adjusted)

Max(a, b) == IF a >= b THEN a ELSE b

\* (mutant) the window is read before the event appended last is in the log
TransformInsertStale(log, operation, uid) ==
    [operation EXCEPT !.position =
        Max(0, AdjustPosition(RecentOps(SubSeq(log, 1, Len(log) - 1), uid),
                              operation.position, operation.position))]

\* _transform_insert
TransformInsert(log, operation, uid) ==
    [operation EXCEPT !.position =
        Max(0, AdjustPosition(RecentOps(log, uid), operation.position, operation.position))]

\* (mutant) the length of a delete is cut by the deletes before it
TransformDeleteShrinks(log, operation, uid) ==
    [operation EXCEPT
        !.position = Max(0, AdjustPosition(RecentOps(log, uid), operation.position,
                                           operation.position)),
        !.length = Max(0, AdjustPosition(RecentOps(log, uid), operation.position,
                                         operation.length))]

\* _transform_delete
TransformDelete(log, operation, uid) ==
    [operation EXCEPT
        !.position = Max(0, AdjustPosition(RecentOps(log, uid), operation.position,
                                           operation.position)),
        !.length = operation.length]

\* (mutant) every operation that carries a position is shifted
TransformedOpShiftsAll(log, operation, uid) ==
    IF operation.type = "delete" THEN TransformDelete(log, operation, uid)
    ELSE IF "position" \in DOMAIN operation THEN TransformInsert(log, operation, uid)
    ELSE operation

\* apply_operational_transform, lines 182-191: the dispatch on operation["type"]
TransformedOp(log, operation, uid) ==
    IF operation.type = "insert" THEN TransformInsert(log, operation, uid)
    ELSE IF operation.type = "delete" THEN TransformDelete(log, operation, uid)
    ELSE operation

\* ------------------------------------------------------------ session registry
\* (mutant) the is_active test of line 81 left out
JoinAcceptsInactive(sid) == sid \in DOMAIN sessions

\* join_session, lines 77-82: the two early returns
JoinAccepts(sid) == sid \in DOMAIN sessions /\ sessions[sid].is_active

\* (mutant) the user is not added
AddParticipantSkipped(sess, sid, uid) == sess

\* session.participants.add(user_id)
AddParticipant(sess, sid, uid) ==
    [sess EXCEPT ![sid].participants = @ \cup {uid}]

\* (mutant) the user's set is replaced instead of added to
TrackUserSessionOverwrite(us, uid, sid) == Put(us, uid, {sid})

\* if user_id not in self.user_sessions: ... = set(); .add(session_id)
TrackUserSession(us, uid, sid) ==
    Put(us, uid, (IF uid \in DOMAIN us THEN us[uid] ELSE {}) \cup {sid})

\* (mutant) the creator of a session can never be removed
DiscardParticipantKeepCreator(sess, sid, uid) ==
    [sess EXCEPT ![sid].participants = IF uid = sess[sid].created_by THEN @ ELSE @ \ {uid}]

\* session.participants.discard(user_id)
DiscardParticipant(sess, sid, uid) ==
    [sess EXCEPT ![sid].participants = @ \ {uid}]

\* (mutant) the reverse index is not updated on leave
UntrackUserSessionSkipped(us, uid, sid) == us

\* if user_id in self.user_sessions: self.user_sessions[user_id].discard(session_id)
UntrackUserSession(us, uid, sid) ==
    IF uid \in DOMAIN us THEN [us EXCEPT ![uid] = @ \ {sid}] ELSE us

\* if not session.participants: session.is_active = False
CloseIfEmpty(sess, sid) ==
    IF sess[sid].participants = {}
    THEN [sess EXCEPT ![sid].is_active = FALSE]
    ELSE sess

\* (mutant) the event is put at the front of the log
AppendEventAtFront(log, event) == <<event>> \o log

\* (mutant) the event is written over the last event of the log
AppendEventOverLast(log, event) ==
    IF log = <<>> THEN <<event>> ELSE [log EXCEPT ![Len(log)] = event]

\* self.events[session_id].append(event)
AppendEvent(log, event) == Append(log, event)

\* ------------------------------------------------------------ broadcast hub
\* (mutant) a failed send drops every channel of the session
UnregisterClearsSession(wc, sid, w) ==
    IF sid \in DOMAIN wc THEN [wc EXCEPT ![sid] = <<>>] ELSE wc

\* (mutant) the websocket is removed from the list of every session
UnregisterEverywhere(wc, sid, w) ==
    [s \in DOMAIN wc |-> RemoveFirst(wc[s], w)]

\* unregister_websocket
Unregister(wc, sid, w) ==
    IF sid \in DOMAIN wc THEN [wc EXCEPT ![sid] = RemoveFirst(@, w)] ELSE wc

\* unregister_websocket for each websocket of a snapshot, in order
RECURSIVE UnregisterAll(_, _, _)
UnregisterAll(wc, sid, conns) ==
    IF conns = <<>> THEN wc
    ELSE UnregisterAll(Unregister(wc, sid, Head(conns)), sid, Tail(conns))

\* the lowest idle slot (which slot holds a suspended call means nothing)
FreeTask == CHOOSE t \in Tasks : tasks[t].pc = "idle" /\ \A u \in Tasks : tasks[u].pc = "idle" => t <= u

\* What the rest of a call does once its broadcast is over, and its return:
\* leave_session closes an empty session (lines 119-123); join_session returns
\* True (line 98); add_event returns the event (line 153).
Return(op, sid, uid, sess, value, data) ==
    /\ sessions' = IF op = "leave_session" THEN CloseIfEmpty(sess, sid) ELSE sess
    /\ ret' = Returned(op, sid, uid,
                       IF op \in {"join_session", "leave_session"} THEN "True" ELSE "value",
                       value, data)

\* _broadcast_event from its first line to its first suspension or its end.
\* sess is self.sessions as the caller has left it.  json.dumps is inside the
\* try: a message that cannot be serialized raises for every websocket of the
\* snapshot before send_text is called, and the except unregisters each.
\* exclude_user is a parameter the body never reads, so it is not one here.
Broadcast(op, sid, uid, message, sess, value, data) ==
    LET connections == IF sid \in DOMAIN websocket_connections
                       THEN websocket_connections[sid] ELSE <<>>
    IN  IF connections = <<>>
        THEN /\ Return(op, sid, uid, sess, value, data)
             /\ UNCHANGED <<websocket_connections, tasks, inbox>>
        ELSE IF ~JsonSerializable(message)
        THEN /\ websocket_connections' = UnregisterAll(websocket_connections, sid, connections)
             /\ Return(op, sid, uid, sess, value, data)
             /\ UNCHANGED <<tasks, inbox>>
        ELSE /\ \E t \in Tasks : tasks[t].pc = "idle"
             /\ tasks' = [tasks EXCEPT ![FreeTask] =
                            [pc |-> "sending", op |-> op, session_id |-> sid, user_id |-> uid,
                             connections |-> connections, sent |-> 0, message |-> message]]
             /\ sessions' = sess
             /\ UNCHANGED <<websocket_connections, inbox, ret>>

\* (mutant) the exception of a failed send is not caught: the call is left
\* where it is and never returns
SendTextRaises(t, ok) ==
    LET c == tasks[t]
        w == c.connections[c.sent + 1]
    IN  /\ c.pc = "sending"
        /\ inbox' = IF ok THEN [inbox EXCEPT ![w] = Append(@, c.message)] ELSE inbox
        /\ IF ~ok
           THEN /\ tasks' = [tasks EXCEPT ![t].pc = "raised"]
                /\ UNCHANGED <<sessions, ret>>
           ELSE IF c.sent + 1 = Len(c.connections)
           THEN /\ tasks' = [tasks EXCEPT ![t] = Idle]
                /\ Return(c.op, c.session_id, c.user_id, sessions, 0, NoData)
           ELSE /\ tasks' = [tasks EXCEPT ![t].sent = @ + 1]
                /\ UNCHANGED <<sessions, ret>>
        /\ UNCHANGED <<websocket_connections, events, user_sessions, ncalls>>

\* One send_text of a suspended broadcast ends: it delivered the text, or it
\* raised and the websocket is unregistered.  The loop goes on to the next
\* websocket of the snapshot, or the broadcast is over and the call returns.
SendText(t, ok) ==
    LET c == tasks[t]
        w == c.connections[c.sent + 1]
    IN  /\ c.pc = "sending"
        /\ inbox' = IF ok THEN [inbox EXCEPT ![w] = Append(@, c.message)] ELSE inbox
        /\ websocket_connections' =
              IF ok THEN websocket_connections
              ELSE Unregister(websocket_connections, c.session_id, w)
        /\ IF c.sent + 1 = Len(c.connections)
           THEN /\ tasks' = [tasks EXCEPT ![t] = Idle]
                /\ Return(c.op, c.session_id, c.user_id, sessions, 0, NoData)
           ELSE /\ tasks' = [tasks EXCEPT ![t].sent = @ + 1]
                /\ UNCHANGED <<sessions, ret>>
        /\ UNCHANGED <<events, user_sessions, ncalls>>

\* (mutant) the broadcasts loop over the list itself and not over a copy of
\* it: a websocket registered while one is suspended is in its loop as well
RegisterWebsocketInLoops(sid, w) ==
    /\ ncalls < MaxCalls
    /\ ncalls' = ncalls + 1
    /\ websocket_connections' =
          Put(websocket_connections, sid,
              Append(IF sid \in DOMAIN websocket_connections
                     THEN websocket_connections[sid] ELSE <<>>, w))
    /\ tasks' = [t \in Tasks |->
                    IF tasks[t].pc = "sending" /\ tasks[t].session_id = sid
                    THEN [tasks[t] EXCEPT !.connections = Append(@, w)]
                    ELSE tasks[t]]
    /\ ret' = Returned("register_websocket", sid, NoUser, "None", w, NoData)
    /\ UNCHANGED <<sessions, events, user_sessions, inbox>>

\* register_websocket
RegisterWebsocket(sid, w) ==
    /\ ncalls < MaxCalls
    /\ ncalls' = ncalls + 1
    /\ websocket_connections' =
          Put(websocket_connections, sid,
              Append(IF sid \in DOMAIN websocket_connections
                     THEN websocket_connections[sid] ELSE <<>>, w))
    /\ ret' = Returned("register_websocket", sid, NoUser, "None", w, NoData)
    /\ UNCHANGED <<sessions, events, user_sessions, tasks, inbox>>

\* unregister_websocket, called by the transport layer
UnregisterWebsocket(sid, w) ==
    /\ ncalls < MaxCalls
    /\ ncalls' = ncalls + 1
    /\ websocket_connections' = Unregister(websocket_connections, sid, w)
    /\ ret' = Returned("unregister_websocket", sid, NoUser, "None", w, NoData)
    /\ UNCHANGED <<sessions, events, user_sessions, tasks, inbox>>

\* ------------------------------------------------------------ operations
\* (mutant) an id a session already has may be drawn again
AnySessionIds == SessionIds

\* uuid4: an id no session has
FreshSessionIds == SessionIds \ DOMAIN sessions

\* create_session
CreateSession(sid, mockup, creator) ==
    /\ ncalls < MaxCalls
    /\ sid \in FreshSessionIds
    /\ ncalls' = ncalls + 1
    /\ sessions' = Put(sessions, sid, CollaborationSession(sid, mockup, creator))
    /\ events' = Put(events, sid, <<>>)
    /\ user_sessions' = TrackUserSession(user_sessions, creator, sid)
    /\ ret' = Returned("create_session", NoSession, creator, "value", sid, NoData)
    /\ UNCHANGED <<websocket_connections, tasks, inbox>>

\* (mutant) the participants are listed as they were before the join
UserJoinedStale(uid, participants) ==
    [type |-> "user_joined", user_id |-> uid, participants |-> participants \ {uid}]

\* the event_data of join_session, lines 92-96
UserJoined(uid, participants) ==
    [type |-> "user_joined", user_id |-> uid, participants |-> participants]

\* the event_data of leave_session, lines 113-117
UserLeft(uid, participants) ==
    [type |-> "user_left", user_id |-> uid, participants |-> participants]

\* join_session
JoinSession(sid, uid) ==
    /\ ncalls < MaxCalls
    /\ ncalls' = ncalls + 1
    /\ IF ~JoinAccepts(sid)
       THEN /\ ret' = Returned("join_session", sid, uid, "False", 0, NoData)
            /\ UNCHANGED <<sessions, events, user_sessions, websocket_connections, tasks, inbox>>
       ELSE LET sess == AddParticipant(sessions, sid, uid)
            IN  /\ user_sessions' = TrackUserSession(user_sessions, uid, sid)
                /\ Broadcast("join_session", sid, uid,
                             UserJoined(uid, sess[sid].participants),
                             sess, 0, NoData)
                /\ UNCHANGED events

\* leave_session
LeaveSession(sid, uid) ==
    /\ ncalls < MaxCalls
    /\ ncalls' = ncalls + 1
    /\ IF sid \notin DOMAIN sessions
       THEN /\ ret' = Returned("leave_session", sid, uid, "False", 0, NoData)
            /\ UNCHANGED <<sessions, events, user_sessions, websocket_connections, tasks, inbox>>
       ELSE LET sess == DiscardParticipant(sessions, sid, uid)
            IN  /\ user_sessions' = UntrackUserSession(user_sessions, uid, sid)
                /\ Broadcast("leave_session", sid, uid,
                             UserLeft(uid, sess[sid].participants),
                             sess, 0, NoData)
                /\ UNCHANGED events

\* (mutant) the test of line 133 left out: the first thing to fail is the
\* lookup self.events[session_id] of line 145
AddEventRaisesAtAppend(sid) ==
    IF sid \notin DOMAIN events THEN "KeyError" ELSE "none"

\* add_event, lines 133-134: raise ValueError("Session not found")
AddEventRaises(sid) ==
    IF sid \notin DOMAIN sessions THEN "ValueError" ELSE "none"

\* add_event from its first line to its first suspension or its return
AddEventBody(op, sid, uid, type, data) ==
    IF AddEventRaises(sid) # "none"
    THEN /\ ret' = Returned(op, sid, uid, AddEventRaises(sid), 0, NoData)
         /\ UNCHANGED <<sessions, events, user_sessions, websocket_connections, tasks, inbox>>
    ELSE LET event == CollaborationEvent(FreshEventId, sid, uid, type, data)
         IN  /\ events' = [events EXCEPT ![sid] = AppendEvent(@, event)]
             /\ Broadcast(op, sid, uid,
                          [type |-> "collaboration_event", event |-> event],
                          sessions, event.event_id, data)
             /\ UNCHANGED user_sessions

\* (mutant) add_event waits until no send to the session is pending
AddEventBehindSends(sid, uid, type, data) ==
    /\ \A t \in Tasks : ~(tasks[t].pc = "sending" /\ tasks[t].session_id = sid)
    /\ ncalls < MaxCalls
    /\ ncalls' = ncalls + 1
    /\ AddEventBody("add_event", sid, uid, type, data)

\* add_event
AddEvent(sid, uid, type, data) ==
    /\ ncalls < MaxCalls
    /\ ncalls' = ncalls + 1
    /\ AddEventBody("add_event", sid, uid, type, data)

\* apply_operational_transform: _transform_insert and _transform_delete read
\* self.events[session_id] before add_event has looked the session up, so an
\* unknown session is a KeyError for them and add_event's ValueError for the
\* operations that pass through.  Nothing suspends between the read of the
\* window and the append.
ApplyOperationalTransform(sid, operation, uid) ==
    /\ ncalls < MaxCalls
    /\ ncalls' = ncalls + 1
    /\ IF operation.type \in {"insert", "delete"} /\ sid \notin DOMAIN events
       THEN /\ ret' = Returned("apply_operational_transform", sid, uid, "KeyError", 0, NoData)
            /\ UNCHANGED <<sessions, events, user_sessions, websocket_connections, tasks, inbox>>
       ELSE LET transformed_op ==
                    TransformedOp(IF sid \in DOMAIN events THEN events[sid] ELSE <<>>,
                                  operation, uid)
            IN  AddEventBody("apply_operational_transform", sid, uid, "operation", transformed_op)

Next ==
    \/ \E sid \in SessionIds, m \in Mockups, u \in Users : CreateSession(sid, m, u)
    \/ \E sid \in SessionIds, u \in Users : JoinSession(sid, u)
    \/ \E sid \in SessionIds, u \in Users : LeaveSession(sid, u)
    \/ \E sid \in SessionIds, u \in Users, ty \in EventTypes, d \in Payloads :
          AddEvent(sid, u, ty, d)
    \/ \E sid \in SessionIds, u \in Users, o \in Operations :
          ApplyOperationalTransform(sid, o, u)
    \/ \E sid \in SessionIds, w \in Channels : RegisterWebsocket(sid, w)
    \/ \E sid \in SessionIds, w \in Channels : UnregisterWebsocket(sid, w)
    \/ \E t \in Tasks, ok \in BOOLEAN : SendText(t, ok)

Spec == Init /\ [][Next]_vars

\* SpecFair is Spec with every channel send ending: a call suspended in
\* await websocket.send_text is resumed once the send has completed or
\* raised, and the event loop runs every call that can go on.
SpecFair == Spec /\ \A t \in Tasks : WF_vars(\E ok \in BOOLEAN : SendText(t, ok))

\* ------------------------------------------------------------ the transform alone
\* SpecOT gives apply_operational_transform one call on a session that holds
\* any log of up to two events: whatever the type and the payload, a log
\* entry is what add_event(session_id, user_id, event_type, data) leaves.
OTSession == 1
OTLogLens == {0, 1, 2}
OTLengths == {1, 2}

OTOperations ==
    {[type |-> "insert", position |-> p, text |-> Text(n)] :
        p \in 0..OTMaxPos, n \in OTLengths}
    \cup {[type |-> "delete", position |-> p, length |-> n] :
        p \in 0..OTMaxPos, n \in OTLengths}
    \cup {[type |-> "format"]}

\* what the call is given: these, and operations of a kind the transform
\* passes through although they carry a position
OTSubmitted ==
    OTOperations \cup {[type |-> "cursor", position |-> p] : p \in 0..OTMaxPos}

OTEntries == [user_id : Users, event_type : EventTypes, data : OTOperations]

OTLogs ==
    UNION {{[i \in 1..n |-> CollaborationEvent(i, OTSession, f[i].user_id,
                                               f[i].event_type, f[i].data)] :
               f \in [1..n -> OTEntries]} : n \in OTLogLens}

\* create_session by alice, join_session by bob, then the add_event calls
\* that leave the log
OTInit ==
    /\ sessions = [s \in {OTSession} |->
                      [CollaborationSession(OTSession, "m1", "alice")
                          EXCEPT !.participants = Users]]
    /\ events \in {[s \in {OTSession} |-> log] : log \in OTLogs}
    /\ user_sessions = [u \in Users |-> {OTSession}]
    /\ websocket_connections = EmptyDict
    /\ tasks = [t \in Tasks |-> Idle]
    /\ inbox = [w \in Channels |-> <<>>]
    /\ ret = Returned("none", NoSession, NoUser, "none", 0, NoData)
    /\ ncalls = 0

OTNext ==
    /\ ncalls = 0
    /\ \E u \in Users, o \in OTSubmitted : ApplyOperationalTransform(OTSession, o, u)

SpecOT == OTInit /\ [][OTNext]_vars

\* ------------------------------------------------------------ the window
\* SpecWin gives apply_operational_transform one call on a session whose log
\* is about as long as the window: up to two events, then seven to ten
\* events of one kind, then up to one event.
WinEntries ==
    {[user_id |-> "bob", event_type |-> "operation",
      data |-> [type |-> "insert", position |-> 0, text |-> Text(1)]],
     [user_id |-> "alice", event_type |-> "operation",
      data |-> [type |-> "insert", position |-> 0, text |-> Text(2)]],
     [user_id |-> "bob", event_type |-> "edit",
      data |-> [type |-> "insert", position |-> 0, text |-> Text(1)]]}
WinOldLens == {0, 1, 2}
WinRunLens == {7, 8, 9, 10}
WinNewLens == {0, 1}

WinSeqs(lens) == UNION {[1..n -> WinEntries] : n \in lens}

WinLogs ==
    {[i \in 1..Len(f) |-> CollaborationEvent(i, OTSession, f[i].user_id,
                                             f[i].event_type, f[i].data)] :
        f \in {a \o [i \in 1..n |-> e] \o b :
                  a \in WinSeqs(WinOldLens), n \in WinRunLens, e \in WinEntries,
                  b \in WinSeqs(WinNewLens)}}

WinInit ==
    /\ sessions = [s \in {OTSession} |->
                      [CollaborationSession(OTSession, "m1", "alice")
                          EXCEPT !.participants = Users]]
    /\ events \in {[s \in {OTSession} |-> log] : log \in WinLogs}
    /\ user_sessions = [u \in Users |-> {OTSession}]
    /\ websocket_connections = EmptyDict
    /\ tasks = [t \in Tasks |-> Idle]
    /\ inbox = [w \in Channels |-> <<>>]
    /\ ret = Returned("none", NoSession, NoUser, "none", 0, NoData)
    /\ ncalls = 0

WinNext ==
    /\ ncalls = 0
    /\ \E u \in Users, o \in OTSubmitted : ApplyOperationalTransform(OTSession, o, u)

SpecWin == WinInit /\ [][WinNext]_vars

\* ------------------------------------------------------------ the queries
\* self.events[session_id][-50:]
StateWindow == 50

\* (mutant) the first fifty events instead of the last
RecentEventsFromStart(log) == IF Len(log) <= StateWindow THEN log ELSE SubSeq(log, 1, StateWindow)

\* recent_events, line 161
RecentEvents(log) == LastN(log, StateWindow)

\* get_session_state: async, with nothing that suspends
GetSessionState(sid) ==
    /\ ncalls < MaxCalls
    /\ ncalls' = ncalls + 1
    /\ ret' = IF sid \notin DOMAIN sessions
              THEN Returned("get_session_state", sid, NoUser, "ValueError", 0, NoData)
              ELSE Returned("get_session_state", sid, NoUser, "value", 0,
                            [type |-> "session_state",
                             session |-> sessions[sid],
                             recent_events |-> RecentEvents(events[sid]),
                             active_participants |-> Cardinality(sessions[sid].participants)])
    /\ UNCHANGED <<sessions, events, user_sessions, websocket_connections, tasks, inbox>>

\* (mutant) every kind is counted once
CountEventsByTypeOnce(log) ==
    [type \in {log[i].event_type : i \in DOMAIN log} |-> 1]

\* _count_events_by_type: the dict the loop of lines 307-308 leaves, a key
\* for every kind the log holds with the number of its events
CountEventsByType(log) ==
    [type \in {log[i].event_type : i \in DOMAIN log} |->
        Cardinality({i \in DOMAIN log : log[i].event_type = type})]

\* user_counts, lines 316-318: a dict keeps its keys in the order in which
\* they were first set, so it is the list of its items here, the users in
\* the order of their first events
UserCounts(log) ==
    LET authors == {log[i].user_id : i \in DOMAIN log}
        first(u) == CHOOSE i \in DOMAIN log :
                        /\ log[i].user_id = u
                        /\ \A j \in 1..(i - 1) : log[j].user_id # u
        place(u) == Cardinality({v \in authors : first(v) <= first(u)})
    IN  [k \in 1..Cardinality(authors) |->
            LET u == CHOOSE v \in authors : place(v) = k
            IN  [user_id |-> u,
                 count |-> Cardinality({i \in DOMAIN log : log[i].user_id = u})]]

\* (mutant) of the items with the greatest count the last one wins
RECURSIVE MaxByCountLast(_, _)
MaxByCountLast(items, best) ==
    IF items = <<>> THEN best
    ELSE MaxByCountLast(Tail(items),
            IF Head(items).count >= best.count THEN Head(items) ELSE best)

\* max(user_counts.items(), key=lambda x: x[1]): max keeps the first of the
\* items with the greatest key
RECURSIVE MaxByCount(_, _)
MaxByCount(items, best) ==
    IF items = <<>> THEN best
    ELSE MaxByCount(Tail(items),
            IF Head(items).count > best.count THEN Head(items) ELSE best)

\* _get_most_active_user
GetMostActiveUser(log) ==
    IF log = <<>> THEN "None"
    ELSE LET items == UserCounts(log)
         IN  MaxByCount(Tail(items), Head(items)).user_id

\* get_session_analytics: duration_minutes is a wall-clock difference, kept
\* as its type only
GetSessionAnalytics(sid) ==
    /\ ncalls < MaxCalls
    /\ ncalls' = ncalls + 1
    /\ ret' = IF sid \notin DOMAIN sessions
              THEN Returned("get_session_analytics", sid, NoUser, "value", 0, [type |-> "empty"])
              ELSE Returned("get_session_analytics", sid, NoUser, "value", 0,
                            [type |-> "analytics",
                             total_events |-> Len(events[sid]),
                             participants_count |-> Cardinality(sessions[sid].participants),
                             duration_minutes |-> "float",
                             events_by_type |-> CountEventsByType(events[sid]),
                             most_active_user |-> GetMostActiveUser(events[sid])])
    /\ UNCHANGED <<sessions, events, user_sessions, websocket_connections, tasks, inbox>>

\* (mutant) the sessions of every user are returned
ActiveSessionsOfAnyUser(uid) ==
    {s \in DOMAIN sessions : sessions[s].is_active}

\* the comprehension of lines 282-286 over self.user_sessions[user_id]
ActiveSessionsOf(uid) ==
    {s \in user_sessions[uid] : s \in DOMAIN sessions /\ sessions[s].is_active}

\* get_user_sessions: the list follows the iteration of a set, so it is the
\* set of the sessions' records here
GetUserSessions(uid) ==
    /\ ncalls < MaxCalls
    /\ ncalls' = ncalls + 1
    /\ ret' = Returned("get_user_sessions", NoSession, uid, "value", 0,
                       [type |-> "user_sessions",
                        sessions |-> IF uid \notin DOMAIN user_sessions THEN {}
                                     ELSE {sessions[s] : s \in ActiveSessionsOf(uid)}])
    /\ UNCHANGED <<sessions, events, user_sessions, websocket_connections, tasks, inbox>>

\* SpecQ gives the queries one call on an engine that holds one session,
\* with any of its participants still in it, and a log: a run of events of
\* alice, none or about as many as get_session_state returns, then up to
\* three events of any user and kind.
QEntries == [user_id : Users, event_type : EventTypes]
QPadLens == {0, 48, 49, 50}
QTailLens == {0, 1, 2, 3}

QLogs ==
    {[i \in 1..(n + Len(f)) |->
         IF i <= n
         THEN CollaborationEvent(i, OTSession, "alice", "edit", [type |-> "format"])
         ELSE CollaborationEvent(i, OTSession, f[i - n].user_id, f[i - n].event_type,
                                 [type |-> "format"])] :
        n \in QPadLens, f \in UNION {[1..k -> QEntries] : k \in QTailLens}}

QInit ==
    /\ \E P \in SUBSET Users :
          /\ sessions = [s \in {OTSession} |->
                            [CollaborationSession(OTSession, "m1", "alice")
                                EXCEPT !.participants = P, !.is_active = (P # {})]]
          /\ user_sessions = [u \in Users |-> IF u \in P THEN {OTSession} ELSE {}]
    /\ events \in {[s \in {OTSession} |-> log] : log \in QLogs}
    /\ websocket_connections = EmptyDict
    /\ tasks = [t \in Tasks |-> Idle]
    /\ inbox = [w \in Channels |-> <<>>]
    /\ ret = Returned("none", NoSession, NoUser, "none", 0, NoData)
    /\ ncalls = 0

QNext ==
    /\ ncalls = 0
    /\ \/ \E sid \in SessionIds : GetSessionState(sid)
       \/ \E sid \in SessionIds : GetSessionAnalytics(sid)

SpecQ == QInit /\ [][QNext]_vars

\* SpecU is Spec with get_user_sessions among the calls: the index the query
\* reads is the one the calls of the registry have left.
NextU ==
    \/ Next
    \/ \E u \in Users : GetUserSessions(u)

SpecU == Init /\ [][NextU]_vars

\* ------------------------------------------------------------ the join endpoint
\* raise HTTPException(status_code=..., detail=...): HTTPException is a
\* subclass of Exception
HTTPException(status_code, detail) ==
    [raised |-> "HTTPException", status_code |-> status_code, detail |-> detail]

\* the try body of join_collaboration_session, lines 460-468, given what
\* join_session returned: it returns the body of the response or raises
JoinTryBody(sid, success) ==
    IF success = "True"
    THEN [raised |-> "none", status_code |-> 200,
          body |-> [status |-> "joined", session_id |-> sid]]
    ELSE HTTPException(404, "Session not found or inactive")

\* join_collaboration_session: except Exception (lines 469-470) catches
\* whatever the try body raises, the HTTPException of line 468 included, and
\* raises a 500 whose detail is the prefix and str(e)
JoinCollaborationSession(sid, success) ==
    LET r == JoinTryBody(sid, success)
    IN  IF r.raised # "none"
        THEN HTTPException(500, <<"Failed to join session: ", r.status_code, r.detail>>)
        ELSE r

\* ------------------------------------------------------------ reading a step
\* A call on session s started in this step and returned in it: ret' is its return.
ReturnedAtOnce(op, s) ==
    /\ ncalls' = ncalls + 1
    /\ tasks' = tasks
    /\ ret'.op = op
    /\ ret'.session_id = s

\* A call on session s started in this step and is suspended in its first send.
SuspendedIn(t, op, s) ==
    /\ ncalls' = ncalls + 1
    /\ tasks[t].pc = "idle"
    /\ tasks'[t].pc = "sending"
    /\ tasks'[t].op = op
    /\ tasks'[t].session_id = s

\* The suspended call t on session s returned in this step: ret' is its return.
ResumedAndReturned(t, op, s) ==
    /\ tasks[t].pc = "sending"
    /\ tasks[t].op = op
    /\ tasks[t].session_id = s
    /\ tasks'[t].pc = "idle"

\* A call of user u on session s started in this step.
Started(op, s, u) ==
    \/ ReturnedAtOnce(op, s) /\ ret'.user_id = u
    \/ \E t \in Tasks : SuspendedIn(t, op, s) /\ tasks'[t].user_id = u

IsPrefix(a, b) == Len(a) <= Len(b) /\ SubSeq(b, 1, Len(a)) = a

\* ------------------------------------------------------------ claims

\* C1: in every reachable state, the states in which a leave_session call is
\* suspended inside its broadcast included, every session with is_active true
\* has a non-empty participants set.
C1_ActiveHasParticipants ==
    \A s \in DOMAIN sessions :
        sessions[s].is_active => sessions[s].participants # {}

\* C2: inactive is terminal: a session whose is_active is false stays a
\* session with is_active false and an empty participants set, and every
\* join_session that starts on it returns False at once.
C2_InactiveIsTerminal ==
    [][\A s \in DOMAIN sessions :
          ~sessions[s].is_active =>
              /\ sessions[s].participants = {}
              /\ s \in DOMAIN sessions'
              /\ ~sessions'[s].is_active
              /\ sessions'[s].participants = {}
              /\ \A u \in Users :
                    Started("join_session", s, u) =>
                        ReturnedAtOnce("join_session", s) /\ ret'.result = "False"]_vars

\* C2 witness: a join_session on a session that exists and is inactive has
\* returned False.
C2_Witness ==
    \E s \in DOMAIN sessions :
        /\ ~sessions[s].is_active
        /\ ret.op = "join_session"
        /\ ret.session_id = s
        /\ ret.result = "False"

\* The suspended leave_session calls on s whose removal left the set empty
\* (the participants list of their user_left message is empty).
EmptyingLeaves(s) ==
    {t \in Tasks : /\ tasks[t].pc = "sending"
                   /\ tasks[t].op = "leave_session"
                   /\ tasks[t].session_id = s
                   /\ tasks[t].message.participants = {}}

\* C3: whenever a leave_session call removes the last participant, the session
\* is inactive when that call returns, and no join_session that starts after
\* the removal succeeds.  A session that is active and empty was emptied by a
\* leave_session that is still suspended (had it returned, the session would
\* be inactive), so where exactly one such call is suspended it is the one
\* that removed the last participant.
C3_LastLeaveCloses ==
    [][\A s \in DOMAIN sessions :
          \* the removal and the return in one step
          /\ ( /\ ReturnedAtOnce("leave_session", s)
               /\ sessions[s].participants # {}
               /\ sessions[s].participants \ {ret'.user_id} = {} )
             => ~sessions'[s].is_active
          \* the return of a suspended call whose removal emptied the set
          /\ \A t \in EmptyingLeaves(s) :
                ResumedAndReturned(t, "leave_session", s) => ~sessions'[s].is_active
          \* a join that starts after the removal
          /\ ( /\ Cardinality(EmptyingLeaves(s)) = 1
               /\ sessions[s].participants = {} )
             => \A u \in Users :
                   Started("join_session", s, u) =>
                       ReturnedAtOnce("join_session", s) /\ ret'.result = "False"]_vars

\* C4: an inactive session accepts no new events: no step appends to the log
\* of a session whose is_active is false.
C4_InactiveAcceptsNoEvents ==
    [][\A s \in DOMAIN sessions :
          ~sessions[s].is_active => events'[s] = events[s]]_vars

\* C5: join_session returns False when the session id is unknown or the
\* session is inactive, and then sessions, participant sets, the reverse
\* index, the logs and the subscriptions are unchanged and nothing is sent;
\* otherwise it puts the user in the participants set and returns True.
C5_JoinResult ==
    [][\A s \in SessionIds, u \in Users :
          /\ Started("join_session", s, u) =>
                IF s \notin DOMAIN sessions \/ ~sessions[s].is_active
                THEN /\ ReturnedAtOnce("join_session", s)
                     /\ ret'.result = "False"
                     /\ UNCHANGED <<sessions, events, user_sessions,
                                    websocket_connections, inbox>>
                ELSE /\ u \in sessions'[s].participants
                     /\ ReturnedAtOnce("join_session", s) => ret'.result = "True"
          /\ \A t \in Tasks :
                ResumedAndReturned(t, "join_session", s) =>
                    /\ ret'.op = "join_session"
                    /\ ret'.result = "True"]_vars

\* C5 witness: a join_session on an unknown session has returned False and,
\* on the other session, a join_session has put a second user in the set.
C5_Witness ==
    /\ ret.op = "join_session"
    /\ ret.result = "False"
    /\ ret.session_id \notin DOMAIN sessions
    /\ \E s \in DOMAIN sessions : Cardinality(sessions[s].participants) = 2

\* C6: join_session is idempotent on membership: for an active session, the
\* join of a user who is a participant leaves the participants set and the
\* reverse index as they were.
C6_JoinIdempotent ==
    [][\A s \in DOMAIN sessions, u \in Users :
          ( /\ sessions[s].is_active
            /\ u \in sessions[s].participants
            /\ Started("join_session", s, u) )
          => /\ sessions'[s].participants = sessions[s].participants
             /\ user_sessions' = user_sessions]_vars

\* C6 witness: two calls were made, a create_session and a successful
\* join_session of the creator on the session created.
C6_Witness ==
    /\ ncalls = 2
    /\ ret.op = "join_session"
    /\ ret.result = "True"
    /\ ret.session_id \in DOMAIN sessions
    /\ sessions[ret.session_id].created_by = ret.user_id

\* C7: leave_session returns False only for an unknown session id, and then
\* changes nothing; for a known session it takes the user out of the
\* participants set and returns True, also when the user is no participant
\* or the session is inactive.
C7_LeaveResult ==
    [][\A s \in SessionIds, u \in Users :
          /\ Started("leave_session", s, u) =>
                IF s \notin DOMAIN sessions
                THEN /\ ReturnedAtOnce("leave_session", s)
                     /\ ret'.result = "False"
                     /\ UNCHANGED <<sessions, events, user_sessions,
                                    websocket_connections, inbox>>
                ELSE /\ u \notin sessions'[s].participants
                     /\ ReturnedAtOnce("leave_session", s) => ret'.result = "True"
          /\ \A t \in Tasks :
                ResumedAndReturned(t, "leave_session", s) =>
                    /\ ret'.op = "leave_session"
                    /\ ret'.result = "True"]_vars

\* C7 witness: two calls were made, a create_session and a leave_session of
\* a user who is not the creator (so no participant), which returned True.
C7_Witness ==
    /\ ncalls = 2
    /\ ret.op = "leave_session"
    /\ ret.result = "True"
    /\ ret.session_id \in DOMAIN sessions
    /\ sessions[ret.session_id].created_by # ret.user_id

\* C8: in every reachable state the reverse index agrees with the
\* participant sets: s is in user_sessions[u] iff u is in
\* sessions[s].participants.
C8_IndexAgrees ==
    \A s \in SessionIds, u \in Users :
        (u \in DOMAIN user_sessions /\ s \in user_sessions[u])
        <=> (s \in DOMAIN sessions /\ u \in sessions[s].participants)

\* C8 witness: a user has left every session (an empty set is left in the
\* index) while another user is in two sessions.
C8_Witness ==
    /\ \E u \in DOMAIN user_sessions : user_sessions[u] = {}
    /\ \E u \in DOMAIN user_sessions : Cardinality(user_sessions[u]) = 2

\* C9: create_session returns a session whose id no session had, with
\* participants = {creator}, is_active true and an empty log, and leaves
\* every session and log there was unchanged.
C9_CreateSession ==
    [][ReturnedAtOnce("create_session", NoSession) =>
          LET sid == ret'.value
          IN  /\ sid \notin DOMAIN sessions
              /\ DOMAIN sessions' = DOMAIN sessions \cup {sid}
              /\ DOMAIN events' = DOMAIN events \cup {sid}
              /\ sessions'[sid].session_id = sid
              /\ sessions'[sid].participants = {ret'.user_id}
              /\ sessions'[sid].is_active
              /\ events'[sid] = <<>>
              /\ \A s \in DOMAIN sessions :
                    sessions'[s] = sessions[s] /\ events'[s] = events[s]]_vars

\* C9 witness: a create_session has returned a second session while the
\* first holds an event.
C9_Witness ==
    /\ ret.op = "create_session"
    /\ Cardinality(DOMAIN sessions) = 2
    /\ \E s \in DOMAIN events : events[s] # <<>>

\* C10: the event log is append-only: in every step the log of each session
\* is a prefix of its next log, and an add_event on a known session makes the
\* log one longer with the event it returns at the end.
C10_AppendOnly ==
    [][\A s \in DOMAIN events :
          /\ s \in DOMAIN events'
          /\ IsPrefix(events[s], events'[s])
          /\ \A u \in Users :
                Started("add_event", s, u) =>
                    /\ Len(events'[s]) = Len(events[s]) + 1
                    /\ events'[s][Len(events'[s])].user_id = u
                    /\ events'[s][Len(events'[s])].session_id = s
                    /\ ReturnedAtOnce("add_event", s) =>
                          events'[s][Len(events'[s])].event_id = ret'.value]_vars

\* C10 witness: an add_event has returned the second event of a log.
C10_Witness ==
    /\ ret.op = "add_event"
    /\ ret.result = "value"
    /\ ret.session_id \in DOMAIN events
    /\ Len(events[ret.session_id]) = 2
    /\ events[ret.session_id][2].event_id = ret.value

\* C11: add_event on a session id the registry does not hold fails at once
\* with ValueError ("Session not found"): it appends nothing to any log,
\* creates no session and no log, and sends no broadcast (no send is begun,
\* nothing is delivered and no channel is touched).
C11_AddEventUnknownSession ==
    [][\A s \in SessionIds, u \in Users :
          (Started("add_event", s, u) /\ s \notin DOMAIN sessions) =>
              /\ ReturnedAtOnce("add_event", s)
              /\ ret'.result = "ValueError"
              /\ UNCHANGED <<sessions, events, user_sessions,
                             websocket_connections, tasks, inbox>>]_vars

\* C11 witness: add_event has failed with ValueError on an id that is no
\* session although a channel is subscribed under that id, and another
\* session exists.
C11_Witness ==
    /\ ret.op = "add_event"
    /\ ret.result = "ValueError"
    /\ ret.session_id \notin DOMAIN sessions
    /\ ret.session_id \in DOMAIN websocket_connections
    /\ websocket_connections[ret.session_id] # <<>>
    /\ DOMAIN sessions # {}

\* C12: after add_event has appended e to the log of S, every channel
\* subscribed to S whose transport send succeeds eventually receives a
\* message carrying e and remains subscribed afterwards.  Read on a call that
\* has returned with no send left pending and no send refused by the
\* transport: every channel that was subscribed to S when e was appended has
\* been delivered e and is still subscribed.
C12_EventReachesSubscribers ==
    [][\A s \in DOMAIN sessions \cap DOMAIN websocket_connections :
          (ReturnedAtOnce("add_event", s) /\ ret'.result = "value") =>
              \A i \in DOMAIN websocket_connections[s] :
                  LET w == websocket_connections[s][i]
                  IN  /\ \E k \in DOMAIN inbox'[w] :
                            /\ inbox'[w][k].type = "collaboration_event"
                            /\ inbox'[w][k].event.event_id = ret'.value
                      /\ \E j \in DOMAIN websocket_connections'[s] :
                            websocket_connections'[s][j] = w]_vars

\* how many times x is in the list
Occurrences(list, x) == Cardinality({i \in DOMAIN list : list[i] = x})

ChannelUser == [w \in Channels |-> IF w = 1 THEN "alice" ELSE "bob"]

\* C14: an event added by user U through add_event is broadcast to the other
\* participants' channels but is not sent to U's own channel.  Read on a call
\* that has returned with no send left pending: every subscribed channel of
\* another participant has been delivered the event, and U's own channel has
\* been delivered nothing.
C14_SenderExcluded ==
    [][\A s \in DOMAIN sessions \cap DOMAIN websocket_connections, u \in Users :
          (ReturnedAtOnce("add_event", s) /\ ret'.user_id = u /\ ret'.result = "value") =>
              \A i \in DOMAIN websocket_connections[s] :
                  LET w == websocket_connections[s][i]
                  IN  /\ ChannelUser[w] = u => inbox'[w] = inbox[w]
                      /\ ChannelUser[w] \in sessions[s].participants \ {u} =>
                            \E k \in DOMAIN inbox'[w] :
                                /\ inbox'[w][k].type = "collaboration_event"
                                /\ inbox'[w][k].event.event_id = ret'.value
                                /\ inbox'[w][k].event.user_id = u]_vars

\* the place of a delivered event in the log of its session
LogIndex(event) ==
    CHOOSE i \in DOMAIN events'[event.session_id] :
        events'[event.session_id][i].event_id = event.event_id

\* C15: under any interleaving of add_event calls on one session, each
\* subscribed channel receives the session's events in the order in which
\* they were appended to the log: if e1 precedes e2 in the log, no channel is
\* sent e2 before e1.  After every step the events in every inbox stand in
\* log order, and an add_event that has returned with no send left pending
\* has delivered its event to every channel that was subscribed when the
\* event was appended.
C15_DeliveryInLogOrder ==
    [][/\ \A w \in Channels : \A j, k \in DOMAIN inbox'[w] :
            (/\ j < k
             /\ inbox'[w][j].type = "collaboration_event"
             /\ inbox'[w][k].type = "collaboration_event"
             /\ inbox'[w][j].event.session_id = inbox'[w][k].event.session_id) =>
                LogIndex(inbox'[w][j].event) < LogIndex(inbox'[w][k].event)
       /\ \A s \in DOMAIN sessions \cap DOMAIN websocket_connections :
            (ReturnedAtOnce("add_event", s) /\ ret'.result = "value") =>
                \A i \in DOMAIN websocket_connections[s] :
                    \E k \in DOMAIN inbox'[websocket_connections[s][i]] :
                        LET m == inbox'[websocket_connections[s][i]][k]
                        IN  /\ m.type = "collaboration_event"
                            /\ m.event = events'[s][Len(events'[s])]]_vars

\* the sum of shift[i] over the indices in I
RECURSIVE SumOf(_, _)
SumOf(shift, I) ==
    IF I = {} THEN 0
    ELSE LET i == CHOOSE x \in I : TRUE
         IN  shift[i] + SumOf(shift, I \ {i})

\* by how much the logged event e moves an operation of user uid submitted at position
ShiftBy(e, uid, position) ==
    IF e.user_id = uid \/ e.event_type # "operation" THEN 0
    ELSE IF e.data.type = "insert" /\ e.data.position <= position THEN Len(e.data.text)
    ELSE IF e.data.type = "delete" /\ e.data.position < position THEN 0 - e.data.length
    ELSE 0

\* the position an operation of user uid submitted at position must get when
\* the log is before: the shifts of the last ten events of before, not below 0
ShiftedPosition(before, uid, position) ==
    LET I == {i \in DOMAIN before : i > Len(before) - 10}
        raw == position + SumOf([i \in I |-> ShiftBy(before[i], uid, position)], I)
    IN  IF raw < 0 THEN 0 ELSE raw

\* C16: under any interleaving of apply_operational_transform and add_event
\* calls on one session, no other event is appended between a call's read of
\* the window and its own append: every insert or delete in a log is a
\* submitted operation shifted against exactly the events that stand before
\* it in the log.
C16_ReadAndAppendAtomic ==
    \A s \in DOMAIN events : \A i \in DOMAIN events[s] :
        LET e == events[s][i]
        IN  (e.event_type = "operation" /\ e.data.type \in {"insert", "delete"}) =>
                \E o \in Operations :
                    /\ o.type = e.data.type
                    /\ e.data = [o EXCEPT !.position =
                                    ShiftedPosition(SubSeq(events[s], 1, i - 1),
                                                    e.user_id, o.position)]

\* C16 witness: bob's insert of one character at 0 went through the transform,
\* then an add_event of bob, then alice's insert submitted at 2: it stands in
\* the log at 3, shifted by the one operation of bob before it.
C16_Witness ==
    \E s \in DOMAIN events :
        /\ Len(events[s]) = 3
        /\ events[s][1].user_id = "bob"
        /\ events[s][1].event_type = "operation"
        /\ events[s][1].data = [type |-> "insert", position |-> 0, text |-> Text(1)]
        /\ events[s][2].user_id = "bob"
        /\ events[s][2].event_type = "edit"
        /\ events[s][3].user_id = "alice"
        /\ events[s][3].event_type = "operation"
        /\ events[s][3].data = [type |-> "insert", position |-> 3, text |-> Text(2)]

\* C17: a slow subscriber does not stall new edits: while a call is suspended
\* in a channel send of a broadcast to a session, an add_event, an
\* apply_operational_transform, a join_session or a leave_session on the same
\* session can run and complete its in-memory mutation without waiting for
\* that send (as long as the model has a call, and for a call that may itself
\* have to suspend, a slot left).
C17_SlowSubscriberDoesNotStall ==
    \A t \in Tasks :
        (tasks[t].pc = "sending" /\ ncalls < MaxCalls) =>
            LET s == tasks[t].session_id
            IN  /\ \A u \in Users, ty \in EventTypes, d \in Payloads :
                      ENABLED (/\ AddEvent(s, u, ty, d)
                               /\ Len(events'[s]) = Len(events[s]) + 1
                               /\ tasks'[t] = tasks[t])
                /\ \A u \in Users, o \in Operations :
                      ENABLED (/\ ApplyOperationalTransform(s, o, u)
                               /\ Len(events'[s]) = Len(events[s]) + 1
                               /\ tasks'[t] = tasks[t])
                /\ (\E t2 \in Tasks : tasks[t2].pc = "idle") =>
                      \A u \in Users :
                          /\ sessions[s].is_active =>
                                ENABLED (/\ JoinSession(s, u)
                                         /\ u \in sessions'[s].participants
                                         /\ tasks'[t] = tasks[t])
                          /\ ENABLED (/\ LeaveSession(s, u)
                                      /\ u \notin sessions'[s].participants
                                      /\ tasks'[t] = tasks[t])

\* C17 witness: a call is suspended in the first send of its broadcast to a
\* session, and the call that returned last is an add_event on that session
\* whose event is the last of the log: it ran while the send was pending.
C17_Witness ==
    \E t \in Tasks :
        /\ tasks[t].pc = "sending"
        /\ tasks[t].sent = 0
        /\ ret.op = "add_event"
        /\ ret.result = "value"
        /\ ret.session_id = tasks[t].session_id
        /\ events[ret.session_id] # <<>>
        /\ events[ret.session_id][Len(events[ret.session_id])].event_id = ret.value

\* the indices of the window of log that hold an operation of a user other than uid
OtherOps(log, uid) ==
    {i \in DOMAIN log :
        /\ i > Len(log) - 10
        /\ log[i].user_id # uid
        /\ log[i].event_type = "operation"}

\* what the transform makes of operation X of user uid against log
Transformed(log, X, uid) ==
    IF X.type = "insert" THEN TransformInsert(log, X, uid)
    ELSE TransformDelete(log, X, uid)

\* the insert and delete operations a caller submits
OTEdits == {o \in OTOperations : o.type \in {"insert", "delete"}}

\* C18: insert-shift law: when the window holds exactly one operation W of
\* another user and W is an insert of length L at a position <= X.position,
\* the transformed X, insert or delete, has position X.position + L and is X
\* in every other field; bob's insert of 3 characters at 2 turns alice's
\* insert at 5 into an insert at 8.
C18_InsertShift ==
    /\ \A u \in Users, X \in OTEdits :
          LET log == events[OTSession]
              I == OtherOps(log, u)
          IN  (/\ Cardinality(I) = 1
               /\ \A i \in I : /\ log[i].data.type = "insert"
                               /\ log[i].data.position <= X.position) =>
                  \A i \in I :
                      Transformed(log, X, u) =
                          [X EXCEPT !.position = X.position + Len(log[i].data.text)]
    /\ TransformInsert(
          <<CollaborationEvent(1, OTSession, "bob", "operation",
                               [type |-> "insert", position |-> 2, text |-> Text(3)])>>,
          [type |-> "insert", position |-> 5, text |-> Text(1)], "alice")
       = [type |-> "insert", position |-> 8, text |-> Text(1)]

\* C18 witness: the log held bob's insert of 2 characters at 1 and alice's
\* insert submitted at 2 has been recorded at 4.
C18_Witness ==
    /\ ncalls = 1
    /\ ret.op = "apply_operational_transform"
    /\ ret.user_id = "alice"
    /\ Len(events[OTSession]) = 2
    /\ events[OTSession][1].user_id = "bob"
    /\ events[OTSession][1].event_type = "operation"
    /\ events[OTSession][1].data = [type |-> "insert", position |-> 1, text |-> Text(2)]
    /\ events[OTSession][2].data = [type |-> "insert", position |-> 4, text |-> Text(1)]
    /\ ret.data = events[OTSession][2].data

\* C19: delete-shift law: when the window holds exactly one operation W of
\* another user and W is a delete of length L at position p, the transformed
\* X has position max(0, X.position - L) if p < X.position and X.position if
\* p >= X.position, and is X in every other field.
C19_DeleteShift ==
    \A u \in Users, X \in OTEdits :
        LET log == events[OTSession]
            I == OtherOps(log, u)
        IN  (/\ Cardinality(I) = 1
             /\ \A i \in I : log[i].data.type = "delete") =>
                \A i \in I :
                    LET W == log[i].data
                        moved == IF X.position - W.length < 0 THEN 0
                                 ELSE X.position - W.length
                    IN  Transformed(log, X, u) =
                            [X EXCEPT !.position =
                                IF W.position < X.position THEN moved ELSE X.position]

\* C19 witness: the log held bob's delete of 1 character at 0 and alice's
\* delete of 2 characters submitted at 2 has been recorded at 1.
C19_Witness ==
    /\ ncalls = 1
    /\ ret.op = "apply_operational_transform"
    /\ ret.user_id = "alice"
    /\ Len(events[OTSession]) = 2
    /\ events[OTSession][1].user_id = "bob"
    /\ events[OTSession][1].event_type = "operation"
    /\ events[OTSession][1].data = [type |-> "delete", position |-> 0, length |-> 1]
    /\ events[OTSession][2].data = [type |-> "delete", position |-> 1, length |-> 2]
    /\ ret.data = events[OTSession][2].data

\* C20: no-concurrency identity: when the window holds no operation of
\* another user (the log is empty, or holds only the caller's own operations
\* and events that are not operations), the transform returns every insert
\* or delete X, at a position from 0 on, unchanged in all fields.
C20_NoConcurrencyIdentity ==
    \A u \in Users, X \in OTEdits :
        OtherOps(events[OTSession], u) = {} =>
            Transformed(events[OTSession], X, u) = X

\* C20 witness: the log held alice's own insert of 2 characters at 0, and
\* alice's insert submitted at 0 has been recorded at 0.
C20_Witness ==
    /\ ncalls = 1
    /\ ret.op = "apply_operational_transform"
    /\ ret.user_id = "alice"
    /\ Len(events[OTSession]) = 2
    /\ events[OTSession][1].user_id = "alice"
    /\ events[OTSession][1].event_type = "operation"
    /\ events[OTSession][1].data = [type |-> "insert", position |-> 0, text |-> Text(2)]
    /\ events[OTSession][2].data = [type |-> "insert", position |-> 0, text |-> Text(1)]
    /\ ret.data = events[OTSession][2].data

\* the last ten events of a log
LastTen(log) == IF Len(log) <= 10 THEN log ELSE SubSeq(log, Len(log) - 9, Len(log))

\* A log of another run with the same window contents: the same users, kinds
\* and payloads in the same order under other event ids, another timestamp
\* and another session id, behind the events of older when the window is full.
OtherRun(log, older) ==
    LET window == LastTen(log)
        before == IF Len(log) >= 10 THEN older ELSE <<>>
    IN  [i \in 1..Len(before) |->
            [event_id |-> 200 + i, session_id |-> 2, user_id |-> before[i].user_id,
             event_type |-> before[i].event_type, data |-> before[i].data,
             timestamp |-> "earlier"]]
        \o [i \in 1..Len(window) |->
            [window[i] EXCEPT !.event_id = @ + 100, !.session_id = 2,
                              !.timestamp = "later"]]

\* C21: transform determinism: two runs of the transform with identical
\* window contents, an identical input operation and an identical user id
\* return the same adjusted operation, whatever the event ids, the
\* timestamps, the session and the events older than the window are.
C21_TransformDeterminism ==
    \A u \in Users, X \in OTSubmitted, older \in WinSeqs({0, 1}) :
        TransformedOp(OtherRun(events[OTSession], older), X, u)
            = TransformedOp(events[OTSession], X, u)

\* C21 witness: alice's insert at 0 has been recorded at 0 on a log of eleven
\* events whose oldest event, outside the window, is an operation of bob.
C21_Witness ==
    /\ ncalls = 1
    /\ ret.op = "apply_operational_transform"
    /\ ret.user_id = "alice"
    /\ Len(events[OTSession]) = 12
    /\ events[OTSession][1].user_id = "bob"
    /\ events[OTSession][1].event_type = "operation"
    /\ events[OTSession][12].data = [type |-> "insert", position |-> 0, text |-> Text(1)]
    /\ ret.data = events[OTSession][12].data

\* C22: for a delete the transform carries length through unchanged for
\* every window, and its adjusted position is the position the insert
\* transform computes for the same position, window and user.
C22_DeleteLikeInsert ==
    \A u \in Users, X \in OTEdits :
        X.type = "delete" =>
            LET log == events[OTSession]
                asInsert == [type |-> "insert", position |-> X.position, text |-> Text(1)]
            IN  /\ TransformDelete(log, X, u).length = X.length
                /\ TransformDelete(log, X, u).position = TransformInsert(log, asInsert, u).position
                /\ DOMAIN TransformDelete(log, X, u) = DOMAIN X

\* C22 witness: the log held bob's insert of 2 characters at 0 and bob's
\* delete of 1 character at 0, and alice's delete of 2 characters submitted
\* at 2 has been recorded at 3 with its length 2.
C22_Witness ==
    /\ ncalls = 1
    /\ ret.op = "apply_operational_transform"
    /\ ret.user_id = "alice"
    /\ Len(events[OTSession]) = 3
    /\ events[OTSession][1].user_id = "bob"
    /\ events[OTSession][1].event_type = "operation"
    /\ events[OTSession][1].data = [type |-> "insert", position |-> 0, text |-> Text(2)]
    /\ events[OTSession][2].user_id = "bob"
    /\ events[OTSession][2].event_type = "operation"
    /\ events[OTSession][2].data = [type |-> "delete", position |-> 0, length |-> 1]
    /\ events[OTSession][3].data = [type |-> "delete", position |-> 3, length |-> 2]
    /\ ret.data = events[OTSession][3].data

\* C23: an operation whose kind is neither insert nor delete is returned by
\* apply_operational_transform unchanged, whatever the window contains.
C23_PassThrough ==
    \A u \in Users, X \in OTSubmitted :
        X.type \notin {"insert", "delete"} =>
            TransformedOp(events[OTSession], X, u) = X

\* C23 witness: the log held bob's insert of 2 characters at 0, and alice's
\* cursor operation submitted at 1 has been returned and recorded at 1.
C23_Witness ==
    /\ ncalls = 1
    /\ ret.op = "apply_operational_transform"
    /\ ret.user_id = "alice"
    /\ ret.result = "value"
    /\ Len(events[OTSession]) = 2
    /\ events[OTSession][1].user_id = "bob"
    /\ events[OTSession][1].event_type = "operation"
    /\ events[OTSession][1].data = [type |-> "insert", position |-> 0, text |-> Text(2)]
    /\ events[OTSession][2].data = [type |-> "cursor", position |-> 1]
    /\ ret.data = [type |-> "cursor", position |-> 1]

\* the indices of the ten most recent events of log that are operations of a
\* user other than uid, wherever in the log they stand
LastTenOtherOps(log, uid) ==
    LET F == {i \in DOMAIN log : log[i].user_id # uid /\ log[i].event_type = "operation"}
    IN  {i \in F : Cardinality({j \in F : j > i}) < 10}

\* C24: the transform window is the last 10 of those events of the log that
\* are of kind operation and authored by a user other than the caller: each
\* of the 10 most recent other-user operation events shifts the result, even
\* when newer events of other kinds or of the caller follow it, and no older
\* event does.
C24_WindowOfOtherUserOps ==
    \A u \in Users, X \in OTEdits :
        LET log == events[OTSession]
            I == LastTenOtherOps(log, u)
            raw == X.position + SumOf([i \in I |-> ShiftBy(log[i], u, X.position)], I)
        IN  TransformedOp(log, X, u) = [X EXCEPT !.position = IF raw < 0 THEN 0 ELSE raw]

\* C24, amended: the transform window is the last 10 events of the log, and
\* of these the operations of a user other than the caller shift the result:
\* each of them does, and no event before the last 10 does, even when it is
\* among the 10 most recent other-user operations.
C24_WindowOfLastTenEvents ==
    \A u \in Users, X \in OTEdits :
        LET log == events[OTSession]
            I == {i \in DOMAIN log : i > Len(log) - 10}
            raw == X.position + SumOf([i \in I |-> ShiftBy(log[i], u, X.position)], I)
        IN  /\ TransformedOp(log, X, u) = [X EXCEPT !.position = IF raw < 0 THEN 0 ELSE raw]
            /\ TransformedOp(log, X, u) = TransformedOp(LastTen(log), X, u)

\* C24 witness: the log held an operation of bob followed by ten edit events,
\* and alice's insert of 2 characters submitted at 0 has been recorded at 0:
\* bob's operation, the only other-user operation of the log, did not shift it.
C24_Witness ==
    /\ ncalls = 1
    /\ ret.op = "apply_operational_transform"
    /\ ret.user_id = "alice"
    /\ Len(events[OTSession]) = 12
    /\ events[OTSession][1].user_id = "bob"
    /\ events[OTSession][1].event_type = "operation"
    /\ events[OTSession][1].data = [type |-> "insert", position |-> 0, text |-> Text(1)]
    /\ \A i \in 2..11 : events[OTSession][i].event_type = "edit"
    /\ events[OTSession][12].data = [type |-> "insert", position |-> 0, text |-> Text(2)]
    /\ ret.data = events[OTSession][12].data

\* C25: each successful apply_operational_transform call appends exactly one
\* event to the log of its session, of kind operation, authored by the
\* calling user, whose payload is the returned adjusted operation; it changes
\* no earlier event and no other log, and the event is in the window of a
\* transform that a different user submits next.
C25_TransformRecordsOneOperation ==
    [][\A s \in DOMAIN sessions, u \in Users :
          Started("apply_operational_transform", s, u) =>
              LET n == Len(events[s])
                  e == events'[s][n + 1]
              IN  /\ Len(events'[s]) = n + 1
                  /\ SubSeq(events'[s], 1, n) = events[s]
                  /\ \A s2 \in DOMAIN events \ {s} : events'[s2] = events[s2]
                  /\ e.event_type = "operation"
                  /\ e.user_id = u
                  /\ e.session_id = s
                  /\ ReturnedAtOnce("apply_operational_transform", s) =>
                        ret'.result = "value" /\ ret'.data = e.data
                  /\ \A v \in Users \ {u} :
                        \E k \in DOMAIN RecentOps(events'[s], v) :
                            RecentOps(events'[s], v)[k] = e]_vars

\* C25 witness: alice's insert of one character at 0 was recorded through the
\* transform, and bob's insert submitted next at 2 has been returned and
\* recorded at 3: alice's event was in its window.
C25_Witness ==
    \E s \in DOMAIN events :
        /\ Len(events[s]) = 2
        /\ events[s][1].user_id = "alice"
        /\ events[s][1].event_type = "operation"
        /\ events[s][1].data = [type |-> "insert", position |-> 0, text |-> Text(1)]
        /\ events[s][2].user_id = "bob"
        /\ events[s][2].event_type = "operation"
        /\ events[s][2].data = [type |-> "insert", position |-> 3, text |-> Text(2)]
        /\ ret.op = "apply_operational_transform"
        /\ ret.session_id = s
        /\ ret.user_id = "bob"
        /\ ret.data = events[s][2].data

\* C26: apply_operational_transform on an unknown session id fails with the
\* same not-found error as add_event, ValueError ("Session not found"), for
\* every operation kind (insert, delete and pass-through), and changes no
\* state.
C26_TransformUnknownSession ==
    [][\A s \in SessionIds, u \in Users :
          (Started("apply_operational_transform", s, u) /\ s \notin DOMAIN sessions) =>
              /\ ReturnedAtOnce("apply_operational_transform", s)
              /\ ret'.result = "ValueError"
              /\ UNCHANGED <<sessions, events, user_sessions,
                             websocket_connections, tasks, inbox>>]_vars

\* C27: get_session_state fails with ValueError ("Session not found") for an
\* unknown session id; otherwise recent_events is exactly the last
\* min(50, n) events of the n-event log in append order, active_participants
\* is the size of the participants set, and the call changes no state.
C27_GetSessionState ==
    [][\A s \in SessionIds :
          ReturnedAtOnce("get_session_state", s) =>
              /\ UNCHANGED <<sessions, events, user_sessions,
                             websocket_connections, tasks, inbox>>
              /\ IF s \notin DOMAIN sessions
                 THEN ret'.result = "ValueError"
                 ELSE LET n == Len(events[s])
                          k == IF n < 50 THEN n ELSE 50
                          recent == ret'.data.recent_events
                      IN  /\ ret'.result = "value"
                          /\ Len(recent) = k
                          /\ \A i \in 1..k : recent[i] = events[s][n - k + i]
                          /\ ret'.data.active_participants =
                                Cardinality(sessions[s].participants)
                          /\ ret'.data.session = sessions[s]]_vars

\* C27 witness: get_session_state has returned on a session of two
\* participants whose log holds 52 events: recent_events holds 50 events, the
\* third of the log first and the last of the log last.
C27_Witness ==
    /\ ret.op = "get_session_state"
    /\ ret.result = "value"
    /\ Len(events[ret.session_id]) = 52
    /\ Len(ret.data.recent_events) = 50
    /\ ret.data.recent_events[1] = events[ret.session_id][3]
    /\ ret.data.recent_events[50] = events[ret.session_id][52]
    /\ ret.data.active_participants = 2

\* C28: get_session_analytics on an unknown session returns an empty result
\* and does not fail; on a known session total_events is the length of the
\* log and the sum of the counts of events_by_type, which has one count per
\* kind of the log, the number of its events, and participants_count is the
\* size of the participants set; the call changes no state in either case.
C28_GetSessionAnalytics ==
    [][\A s \in SessionIds :
          ReturnedAtOnce("get_session_analytics", s) =>
              /\ UNCHANGED <<sessions, events, user_sessions, websocket_connections, tasks, inbox>>
              /\ ret'.result = "value"
              /\ IF s \notin DOMAIN sessions
                 THEN ret'.data = [type |-> "empty"]
                 ELSE LET log == events[s]
                          by_type == ret'.data.events_by_type
                          kinds == {t \in EventTypes : \E i \in DOMAIN log : log[i].event_type = t}
                      IN  /\ ret'.data.total_events = Len(log)
                          /\ DOMAIN by_type = kinds
                          /\ \A t \in kinds :
                                by_type[t] = Cardinality({i \in DOMAIN log : log[i].event_type = t})
                          /\ (IF "edit" \in kinds THEN by_type["edit"] ELSE 0)
                               + (IF "operation" \in kinds THEN by_type["operation"] ELSE 0)
                             = ret'.data.total_events
                          /\ ret'.data.participants_count = Cardinality(sessions[s].participants)]_vars

\* the analytics of a 52-event log of both kinds, with both users in the session
C28_Witness ==
    /\ ret.op = "get_session_analytics"
    /\ ret.session_id \in DOMAIN sessions
    /\ ret.data.total_events = 52
    /\ DOMAIN ret.data.events_by_type = EventTypes
    /\ ret.data.events_by_type["operation"] = 2
    /\ ret.data.events_by_type["edit"] = 50
    /\ ret.data.participants_count = 2

\* the number of events of the log that user u authored
Authored(log, u) == Cardinality({i \in DOMAIN log : log[i].user_id = u})

\* C29: most_active_user of a non-empty log is a user no other user has
\* authored more of its events than, and every other user with as many
\* events has its first event later in the log; for an empty log it is None.
C29_MostActiveUser ==
    [][\A s \in DOMAIN sessions :
          ReturnedAtOnce("get_session_analytics", s) =>
              LET log == events[s]
                  m == ret'.data.most_active_user
              IN  IF log = <<>>
                  THEN m = "None"
                  ELSE /\ m \in Users
                       /\ \A u \in Users : Authored(log, u) <= Authored(log, m)
                       /\ \A u \in Users \ {m} :
                             Authored(log, u) = Authored(log, m) =>
                                 \E i \in DOMAIN log :
                                     /\ log[i].user_id = m
                                     /\ \A j \in 1..i : log[j].user_id # u]_vars

\* a tie that the order of the log decides: bob wrote the first event and
\* alice the second, each has one, and bob is the most active user
C29_Witness ==
    /\ ret.op = "get_session_analytics"
    /\ ret.session_id \in DOMAIN sessions
    /\ Len(events[ret.session_id]) = 2
    /\ events[ret.session_id][1].user_id = "bob"
    /\ events[ret.session_id][2].user_id = "alice"
    /\ ret.data.most_active_user = "bob"

\* The text a step delivered to channel w, if it delivered one.
Delivered(w, message) == inbox'[w] = Append(inbox[w], message)

\* C30: a join_session that is accepted, and a leave_session on a known
\* session, start a broadcast to the channels subscribed to the session at
\* that moment whose message has the type 'user_joined' ('user_left'), the
\* id of the user and the participants of the session as the call has just
\* left them: with the user added (two of them when bob joins a session
\* that holds alice), or with the user removed.  A send of such a broadcast
\* delivers that message to the next channel of the list, or it fails and
\* delivers nothing.
C30_JoinAndLeaveBroadcast ==
    [][/\ \A s \in DOMAIN sessions, u \in Users, t \in Tasks :
             /\ SuspendedIn(t, "join_session", s) /\ tasks'[t].user_id = u =>
                   /\ sessions'[s].participants = sessions[s].participants \cup {u}
                   /\ tasks'[t].message =
                         [type |-> "user_joined", user_id |-> u,
                          participants |-> sessions'[s].participants]
                   /\ tasks'[t].connections = websocket_connections[s]
                   /\ (u = "bob" /\ sessions[s].participants = {"alice"} =>
                          Cardinality(tasks'[t].message.participants) = 2)
             /\ SuspendedIn(t, "leave_session", s) /\ tasks'[t].user_id = u =>
                   /\ sessions'[s].participants = sessions[s].participants \ {u}
                   /\ tasks'[t].message =
                         [type |-> "user_left", user_id |-> u,
                          participants |-> sessions'[s].participants]
                   /\ tasks'[t].connections = websocket_connections[s]
       /\ \A s \in DOMAIN sessions, u \in Users :
             /\ ReturnedAtOnce("join_session", s) /\ ret'.user_id = u /\ ret'.result = "True" =>
                   s \notin DOMAIN websocket_connections \/ websocket_connections[s] = <<>>
             /\ ReturnedAtOnce("leave_session", s) /\ ret'.user_id = u =>
                   s \notin DOMAIN websocket_connections \/ websocket_connections[s] = <<>>
       /\ \A t \in Tasks :
             /\ tasks[t].pc = "sending"
             /\ tasks[t].op \in {"join_session", "leave_session"}
             /\ tasks'[t] # tasks[t]
             => LET w == tasks[t].connections[tasks[t].sent + 1]
                IN  \/ Delivered(w, tasks[t].message)
                    \/ inbox' = inbox]_vars

\* a channel has been delivered the user_joined of bob with the two
\* participants and then the user_left of bob with alice alone
C30_Witness ==
    \E w \in Channels :
        /\ Len(inbox[w]) = 2
        /\ inbox[w][1] = [type |-> "user_joined", user_id |-> "bob",
                          participants |-> {"alice", "bob"}]
        /\ inbox[w][2] = [type |-> "user_left", user_id |-> "bob",
                          participants |-> {"alice"}]

\* The log of session s has grown in this step by one event of the given
\* kind that user u authored.
Logged(s, u, kind) ==
    /\ Len(events'[s]) = Len(events[s]) + 1
    /\ IsPrefix(events[s], events'[s])
    /\ events'[s][Len(events'[s])].user_id = u
    /\ events'[s][Len(events'[s])].event_type = kind

\* C31: the step in which a join_session call is accepted (it returns True
\* or suspends in its broadcast) appends a user_joined event of the joining
\* user to the log of the session, and the step in which a leave_session
\* call on a known session removes its user appends a user_left event.
C31_JoinsAndLeavesLogged ==
    [][\A s \in DOMAIN sessions, u \in Users :
          /\ (Started("join_session", s, u) /\ ~(ReturnedAtOnce("join_session", s) /\ ret'.result = "False"))
                => Logged(s, u, "user_joined")
          /\ Started("leave_session", s, u) => Logged(s, u, "user_left")]_vars

\* The operations a caller or the hub addresses to a session.
SessionOps ==
    {"join_session", "leave_session", "add_event", "apply_operational_transform",
     "register_websocket", "unregister_websocket"}

\* This step is the work of an operation addressed to session s: a call on s
\* that returns or suspends in it, or a send of a broadcast to s.
Addressed(s) ==
    \/ \E op \in SessionOps :
          \/ ReturnedAtOnce(op, s)
          \/ \E t \in Tasks : SuspendedIn(t, op, s)
    \/ /\ ncalls' = ncalls
       /\ \E t \in Tasks : /\ tasks[t].pc = "sending"
                           /\ tasks[t].session_id = s
                           /\ tasks'[t] # tasks[t]

\* d holds for session s after the step what it held before it
SameAt(d, dNext, s) ==
    /\ s \in DOMAIN dNext <=> s \in DOMAIN d
    /\ s \in DOMAIN d => dNext[s] = d[s]

\* C32: a step of an operation addressed to session s leaves the record,
\* the log and the subscription list of every other session as they were,
\* and the operation a transform on s records is the submitted one shifted
\* against the log of s alone.
C32_SessionsIndependent ==
    [][\A s \in SessionIds :
          /\ Addressed(s) =>
                \A other \in SessionIds \ {s} :
                    /\ SameAt(sessions, sessions', other)
                    /\ SameAt(events, events', other)
                    /\ SameAt(websocket_connections, websocket_connections', other)
          /\ (ReturnedAtOnce("apply_operational_transform", s) /\ ret'.result = "value") =>
                \E o \in Operations :
                    ret'.data = IF o.type \in {"insert", "delete"}
                                THEN [o EXCEPT !.position =
                                         ShiftedPosition(events[s], ret'.user_id, o.position)]
                                ELSE o]_vars

\* alice's insert at 2 was transformed on one session and is recorded at 2,
\* while the log of the other session holds an insert of bob at 0, which
\* would have moved it to 3
C32_Witness ==
    \E s \in DOMAIN sessions, other \in DOMAIN sessions :
        /\ s # other
        /\ ret.op = "apply_operational_transform"
        /\ ret.session_id = s
        /\ ret.user_id = "alice"
        /\ ret.data = [type |-> "insert", position |-> 2, text |-> Text(2)]
        /\ Len(events[s]) = 1
        /\ events[s][1].data = ret.data
        /\ Len(events[other]) = 1
        /\ events[other][1].user_id = "bob"
        /\ events[other][1].event_type = "operation"
        /\ events[other][1].data = [type |-> "insert", position |-> 0, text |-> Text(1)]

\* C33: in every reachable state each event of the log of session s carries
\* the session id s, no two events at different places of the logs have the
\* same event id, and no event of one log is an event of another log.
C33_EventsOwnedByOneLog ==
    /\ \A s \in DOMAIN events : \A i \in DOMAIN events[s] : events[s][i].session_id = s
    /\ \A s, t \in DOMAIN events : \A i \in DOMAIN events[s], j \in DOMAIN events[t] :
          events[s][i].event_id = events[t][j].event_id => s = t /\ i = j
    /\ \A s, t \in DOMAIN events : \A i \in DOMAIN events[s], j \in DOMAIN events[t] :
          s # t => events[s][i] # events[t][j]

\* two sessions with an event each, of the same user, kind and payload
C33_Witness ==
    \E s, t \in DOMAIN events :
        /\ s # t
        /\ Len(events[s]) = 1
        /\ Len(events[t]) = 1
        /\ events[s][1].user_id = events[t][1].user_id
        /\ events[s][1].event_type = events[t][1].event_type
        /\ events[s][1].data = events[t][1].data

\* channel w has an entry in the subscription list wc[s]
Subscribed(wc, s, w) == s \in DOMAIN wc /\ \E i \in DOMAIN wc[s] : wc[s][i] = w

\* This step prunes channel w of session s: a send of a suspended broadcast
\* to w ended and delivered nothing, or an add_event on s returned, whose
\* broadcast prunes every channel it finds.
Pruned(s, w) ==
    \/ /\ ncalls' = ncalls
       /\ inbox' = inbox
       /\ \E t \in Tasks : /\ tasks[t].pc = "sending"
                           /\ tasks[t].session_id = s
                           /\ tasks'[t] # tasks[t]
                           /\ tasks[t].connections[tasks[t].sent + 1] = w
    \/ /\ \E op \in {"add_event", "apply_operational_transform"} :
             ReturnedAtOnce(op, s) /\ ret'.result = "value"
       /\ Subscribed(websocket_connections, s, w)

\* C34: a register_websocket or unregister_websocket call leaves the session
\* records, the user index and the logs as they were; a step that prunes a
\* channel leaves every participants set, the user index and every event of
\* the logs as they were; and a pruned channel is sent no later broadcast
\* unless it is registered again: the step that prunes w leaves no entry of
\* w in the list of the session, only register_websocket(s, w) gives w an
\* entry, and a broadcast is sent to the entries the list has when it starts.
C34_ChannelsOwnNoState ==
    [][\A s \in SessionIds, w \in Channels :
          /\ (ReturnedAtOnce("register_websocket", s) \/ ReturnedAtOnce("unregister_websocket", s))
                => UNCHANGED <<sessions, user_sessions, events>>
          /\ Pruned(s, w) =>
                /\ \A x \in DOMAIN sessions :
                      sessions'[x].participants = sessions[x].participants
                /\ user_sessions' = user_sessions
                /\ \A x \in DOMAIN events : IsPrefix(events[x], events'[x])
                /\ ~Subscribed(websocket_connections', s, w)
          /\ (~Subscribed(websocket_connections, s, w) /\ Subscribed(websocket_connections', s, w))
                => ReturnedAtOnce("register_websocket", s) /\ ret'.value = w
          /\ \A t \in Tasks :
                (tasks[t].pc = "idle" /\ tasks'[t].pc = "sending" /\ tasks'[t].session_id = s)
                    => tasks'[t].connections = websocket_connections[s]]_vars

\* the inserts of other users in the window of log at a position <= p, and
\* the deletes of other users in it at a position < p (indices of log)
InsertsAtOrBefore(log, uid, p) ==
    {i \in OtherOps(log, uid) : log[i].data.type = "insert" /\ log[i].data.position <= p}
DeletesBefore(log, uid, p) ==
    {i \in OtherOps(log, uid) : log[i].data.type = "delete" /\ log[i].data.position < p}

\* max(0, p + the lengths of these inserts - the lengths of these deletes)
ClampedSum(log, uid, p) ==
    LET ins == InsertsAtOrBefore(log, uid, p)
        del == DeletesBefore(log, uid, p)
        raw == p + SumOf([i \in ins |-> Len(log[i].data.text)], ins)
                 - SumOf([i \in del |-> log[i].data.length], del)
    IN  IF raw < 0 THEN 0 ELSE raw

\* C35: whatever the window holds, the transform of an insert or delete
\* submitted at p has the position max(0, p + the text lengths of the
\* window's inserts of other users at a position <= p - the lengths of its
\* deletes of other users at a position < p), each compared with p as
\* submitted and the floor applied to the whole sum; and the insert or
\* delete that a transform call records is a submitted one at this position,
\* which is not below 0.
C35_ClampedSumOfShifts ==
    [][/\ \A u \in Users, X \in OTEdits :
             Transformed(events[OTSession], X, u).position
                 = ClampedSum(events[OTSession], u, X.position)
       /\ \A u \in Users :
             Started("apply_operational_transform", OTSession, u) =>
                 LET log == events[OTSession]
                     e == events'[OTSession][Len(log) + 1]
                 IN  e.data.type \in {"insert", "delete"} =>
                         /\ e.data.position >= 0
                         /\ \E X \in OTEdits :
                               e.data = [X EXCEPT !.position = ClampedSum(log, u, X.position)]]_vars

\* the window held bob's insert of 2 characters at 0 and bob's delete at 2;
\* alice's insert submitted at 1 is recorded at 3: the delete at 2 is not
\* before 1, though it is before the 3 the insert has moved to
C35_Witness ==
    /\ ncalls = 1
    /\ ret.op = "apply_operational_transform"
    /\ ret.user_id = "alice"
    /\ Len(events[OTSession]) = 3
    /\ events[OTSession][1].user_id = "bob"
    /\ events[OTSession][1].event_type = "operation"
    /\ events[OTSession][1].data = [type |-> "insert", position |-> 0, text |-> Text(2)]
    /\ events[OTSession][2].user_id = "bob"
    /\ events[OTSession][2].event_type = "operation"
    /\ events[OTSession][2].data = [type |-> "delete", position |-> 2, length |-> 1]
    /\ events[OTSession][3].data = [type |-> "insert", position |-> 3, text |-> Text(1)]
    /\ ret.data = events[OTSession][3].data

\* C36: a broadcast is sent to the snapshot of the list taken when it
\* starts.  While a call is suspended its snapshot and its message stay as
\* they are, whatever is registered or unregistered meanwhile; each of its
\* sends is to the next entry of the snapshot, delivers the message to that
\* channel alone or to none, and moves on by one entry, so that no entry is
\* sent the message twice and a channel that is not in the snapshot is not
\* sent it; and the send to an entry can deliver the message also when the
\* channel is no longer in the list of the session.
C36_BroadcastToSnapshot ==
    [][/\ \A t \in Tasks :
             (tasks[t].pc = "idle" /\ tasks'[t].pc = "sending") =>
                 /\ tasks'[t].connections = websocket_connections[tasks'[t].session_id]
                 /\ tasks'[t].sent = 0
       /\ \A t \in Tasks :
             tasks[t].pc = "sending" =>
                 LET c == tasks[t]
                     w == c.connections[c.sent + 1]
                 IN  /\ c.sent < Len(c.connections)
                     /\ ENABLED (SendText(t, TRUE) /\ inbox'[w] = Append(inbox[w], c.message))
                     /\ \/ tasks'[t] = c
                        \/ /\ IF c.sent + 1 < Len(c.connections)
                              THEN tasks'[t] = [c EXCEPT !.sent = c.sent + 1]
                              ELSE tasks'[t].pc = "idle"
                           /\ inbox'[w] = inbox[w] \/ inbox'[w] = Append(inbox[w], c.message)
                           /\ \A x \in Channels \ {w} : inbox'[x] = inbox[x]
       /\ (\A t \in Tasks : tasks[t].pc = "sending" => tasks'[t] = tasks[t])
             => inbox' = inbox]_vars

\* a join_session took the snapshot <<1>>, channel 2 was registered while the
\* call was suspended, and the call has returned: channel 1 has the message
\* and channel 2, in the list since, has nothing
C36_Witness ==
    /\ ret.op = "join_session"
    /\ ret.result = "True"
    /\ ret.session_id \in DOMAIN websocket_connections
    /\ websocket_connections[ret.session_id] = <<1, 2>>
    /\ Len(inbox[1]) = 1
    /\ inbox[1][1].type = "user_joined"
    /\ inbox[2] = <<>>
    /\ \A t \in Tasks : tasks[t].pc = "idle"

\* C37: get_user_sessions(u) returns the records of exactly the sessions
\* that are active and have u in their participants set, nothing for a user
\* who never created or joined a session (the index has no entry for u), and
\* changes no state.
C37_GetUserSessions ==
    [][\A u \in Users :
          (ReturnedAtOnce("get_user_sessions", NoSession) /\ ret'.user_id = u) =>
              /\ UNCHANGED <<sessions, events, user_sessions, websocket_connections, tasks, inbox>>
              /\ ret'.result = "value"
              /\ \A s \in SessionIds :
                    (\E r \in ret'.data.sessions : r.session_id = s)
                        <=> /\ s \in DOMAIN sessions
                            /\ sessions[s].is_active
                            /\ u \in sessions[s].participants
              /\ \A r \in ret'.data.sessions : r = sessions[r.session_id]
              /\ u \notin DOMAIN user_sessions => ret'.data.sessions = {}]_vars

\* two active sessions of alice, bob has joined one of them and
\* get_user_sessions('bob') has returned that one alone
C37_Witness ==
    /\ ret.op = "get_user_sessions"
    /\ ret.user_id = "bob"
    /\ Cardinality(DOMAIN sessions) = 2
    /\ \A s \in DOMAIN sessions : sessions[s].is_active /\ "alice" \in sessions[s].participants
    /\ Cardinality(ret.data.sessions) = 1
    /\ \A r \in ret.data.sessions : r.participants = {"alice", "bob"}

\* C38: with every channel send ending, every call of add_event,
\* join_session, leave_session and apply_operational_transform returns:
\* a call that is suspended in a send is not suspended for ever, whatever
\* calls start and whatever sends end meanwhile: at any time each suspended
\* call has returned at some later time (a call that does not suspend has
\* returned in the step it started in).
C38_CallsReturn ==
    \A t \in Tasks : []<>(tasks[t].pc = "idle")

\* a leave_session whose broadcast had two sends to make has returned: both
\* channels hold its message
C38_Witness ==
    /\ ret.op = "leave_session"
    /\ ret.result = "True"
    /\ \A t \in Tasks : tasks[t].pc = "idle"
    /\ \A w \in Channels :
          /\ Len(inbox[w]) = 1
          /\ inbox[w][1].type = "user_left"
          /\ inbox[w][1].user_id = ret.user_id

\* C39: when join_session has returned False (unknown or inactive session)
\* the join endpoint answers 404 'Session not found or inactive', and when
\* it has returned True the endpoint answers with status 'joined'.
C39_JoinEndpointOutcome ==
    ret.op = "join_session" =>
        LET response == JoinCollaborationSession(ret.session_id, ret.result)
        IN  IF ret.result = "False"
            THEN /\ response.raised = "HTTPException"
                 /\ response.status_code = 404
                 /\ response.detail = "Session not found or inactive"
            ELSE /\ response.raised = "none"
                 /\ response.body.status = "joined"

====
